---- MODULE Spec2Model ----
(***************************************************************************)
(* A model of the AirQuality ingestion pipeline (omeruncu/AirQuality):     *)
(*   - ErrorHandler.retry            (src/src/utils/error_handler.py)      *)
(*   - DataCollector.collect_data    (src/src/data/data_collector.py)      *)
(*   - the fetchers and processors   (src/src/data/data_fetcher.py,        *)
(*                                    src/src/data/data_processor.py)      *)
(*   - the DataPreprocessor chain    (src/src/data/hopsworks_uploader.py)  *)
(*   - FeatureExtractor              (src/src/features/feature_processor.py)*)
(*   - HopsworksConnector            (src/src/data/hopsworks_uploader.py)  *)
(* Each part has its own specification over its own variables; the         *)
(* variables of the other parts are frozen at their idle values.           *)
(***************************************************************************)
EXTENDS Integers, Sequences, FiniteSets, TLC

VARIABLES
    \* ---- ErrorHandler.retry wrapper (one call of the wrapped function)
    r_max,        \* max_attempts of the decorator
    r_script,     \* what the wrapped operation does on its i-th invocation
    r_pc,         \* "loop" | "sleep" | "returned" | "raised"
    r_attempt,    \* the loop variable `attempt`
    r_calls,      \* outcomes of the invocations made so far, in order
    r_result,     \* value returned / error raised by the wrapper
    r_slept,      \* total time spent in time.sleep(delay)
    \* ---- the collection loop alone, with instantaneous per-cycle work
    s_total,      \* total_collection_time
    s_interval,   \* request_interval
    s_now,        \* time.time() - start_time
    s_pc,         \* "test" | "tail" | "done"
    s_starts,     \* elapsed times at which a cycle started, in order
    \* ---- Application.run -> collect_and_save_data -> collect_data
    collection_time,  \* config data_collection.total_collection_time
    interval,         \* config data_collection.request_interval
    now,              \* time.time() - start_time
    pc,               \* position of the one control thread
    all_data,         \* the session buffer (local of collect_data)
    raw_aqi_data,     \* local of collect_data
    carbon_data,      \* local of collect_data
    processed_data,   \* local of collect_data
    aqi_cache,        \* lru_cache of AirQualityFetcher.fetch
    carbon_cache,     \* lru_cache of CarbonIntensityFetcher.fetch
    aqi_source,       \* what the air-quality API answers in this cycle
    carbon_source,    \* what the carbon-intensity API answers in this cycle
    requests,         \* HTTP requests made so far, per source
    db,               \* rows of table air_quality, in insertion order
    transmitted,      \* batches inserted into the Hopsworks feature group
    up_attempt,       \* loop variable of the retry wrapper around the upload
    cycle,            \* cycles started so far; per-cycle bookkeeping:
    c_buf_len,        \*   len(all_data) when the cycle started
    c_insert,         \*   "none" | "ok" | "failed": insert_data of this cycle
    c_upload,         \*   upload attempts made in this cycle
    c_insert_calls,   \*   calls of insert_data made in this cycle
    exported,         \* what collect_and_save_data received and saved
    connection_test,  \* calls and result of PostgreSQLConnector.test_connection
    \* ---- DataPreprocessor.preprocess on one record
    ch_input,     \* the record handed to preprocess
    ch_data,      \* the record as the validators have left it so far
    ch_stage,     \* the validator to run next, or "returned" | "raised"
    ch_failed,    \* the validator that raised, if one did
    ch_err,       \* the exception it raised
    ch_now,       \* datetime.now() while the chain runs
    \* ---- OutlierDetector.validate alone, applied to a record and again
    od_data,      \* the record handed to validate
    od_once,      \* what validate made of od_data
    od_twice,     \* what validate made of the record it had returned
    od_pc,        \* "start" | "once" | "twice" | "raised"
    \* ---- FeatureExtractor: extract_features, then add_rolling_averages
    fe_data,      \* the list of records handed to extract_features
    fe_df,        \* the DataFrame
    fe_pc,        \* "extract" | "rolling" | "returned" | "raised"
    fe_err,       \* the exception raised, if one was
    \* ---- HopsworksConnector and HopsworksUploader.check_connection
    hc_connection,  \* HopsworksConnector._connection: "None" | "connection"
    hc_fs,          \* HopsworksConnector._fs: "None" | "fs"
    hc_log          \* the calls made so far and what each returned or raised

retryVars == <<r_max, r_script, r_pc, r_attempt, r_calls, r_result, r_slept>>
schedVars == <<s_total, s_interval, s_now, s_pc, s_starts>>
mainVars == <<collection_time, interval, now, pc, all_data, raw_aqi_data,
              carbon_data, processed_data, aqi_cache, carbon_cache, aqi_source,
              carbon_source, requests, db, transmitted, up_attempt, cycle,
              c_buf_len, c_insert, c_upload, c_insert_calls, exported,
              connection_test>>
chainVars == <<ch_input, ch_data, ch_stage, ch_failed, ch_err, ch_now>>
clampVars == <<od_data, od_once, od_twice, od_pc>>
featureVars == <<fe_data, fe_df, fe_pc, fe_err>>
connectorVars == <<hc_connection, hc_fs, hc_log>>
vars == <<retryVars, schedVars, mainVars, chainVars, clampVars, featureVars,
          connectorVars>>

\* The variables each specification leaves alone.
notRetry == <<schedVars, mainVars, chainVars, clampVars, featureVars,
               connectorVars>>
notSched == <<retryVars, mainVars, chainVars, clampVars, featureVars,
               connectorVars>>
notMain == <<retryVars, schedVars, chainVars, clampVars, featureVars,
              connectorVars>>
notChain == <<retryVars, schedVars, mainVars, clampVars, featureVars,
               connectorVars>>
notClamp == <<retryVars, schedVars, mainVars, chainVars, featureVars,
               connectorVars>>
notFeature == <<retryVars, schedVars, mainVars, chainVars, clampVars,
                 connectorVars>>
notConnector == <<retryVars, schedVars, mainVars, chainVars, clampVars,
                  featureVars>>

Min(a, b) == IF a <= b THEN a ELSE b
Max(a, b) == IF a >= b THEN a ELSE b

(***************************************************************************)
(* Idle values of each part.                                               *)
(***************************************************************************)
RetryIdle ==
    /\ r_max = 0 /\ r_script = <<>> /\ r_pc = "idle" /\ r_attempt = 0
    /\ r_calls = <<>> /\ r_result = "" /\ r_slept = 0

SchedIdle ==
    /\ s_total = 0 /\ s_interval = 0 /\ s_now = 0 /\ s_pc = "idle"
    /\ s_starts = <<>>

MainIdle ==
    /\ collection_time = 0 /\ interval = 0 /\ now = 0 /\ pc = "idle"
    /\ all_data = <<>> /\ raw_aqi_data = <<>> /\ carbon_data = <<>>
    /\ processed_data = <<>> /\ aqi_cache = <<>> /\ carbon_cache = <<>>
    /\ aqi_source = <<>> /\ carbon_source = <<>> /\ requests = <<>>
    /\ db = <<>> /\ transmitted = <<>> /\ up_attempt = 0 /\ cycle = 0
    /\ c_buf_len = 0 /\ c_insert = "none" /\ c_upload = 0 /\ exported = <<>>
    /\ c_insert_calls = 0 /\ connection_test = <<>>

ChainIdle ==
    /\ ch_input = <<>> /\ ch_data = <<>> /\ ch_stage = "idle"
    /\ ch_failed = "" /\ ch_err = "" /\ ch_now = 0

ClampIdle ==
    /\ od_data = <<>> /\ od_once = <<>> /\ od_twice = <<>> /\ od_pc = "idle"

FeatureIdle ==
    /\ fe_data = <<>> /\ fe_df = <<>> /\ fe_pc = "idle" /\ fe_err = ""

ConnectorIdle ==
    /\ hc_connection = "idle" /\ hc_fs = "idle" /\ hc_log = <<>>

NotRetryIdle ==
    SchedIdle /\ MainIdle /\ ChainIdle /\ ClampIdle /\ FeatureIdle /\ ConnectorIdle
NotSchedIdle ==
    RetryIdle /\ MainIdle /\ ChainIdle /\ ClampIdle /\ FeatureIdle /\ ConnectorIdle
NotMainIdle ==
    RetryIdle /\ SchedIdle /\ ChainIdle /\ ClampIdle /\ FeatureIdle /\ ConnectorIdle
NotChainIdle ==
    RetryIdle /\ SchedIdle /\ MainIdle /\ ClampIdle /\ FeatureIdle /\ ConnectorIdle
NotClampIdle ==
    RetryIdle /\ SchedIdle /\ MainIdle /\ ChainIdle /\ FeatureIdle /\ ConnectorIdle
NotFeatureIdle ==
    RetryIdle /\ SchedIdle /\ MainIdle /\ ChainIdle /\ ClampIdle /\ ConnectorIdle
NotConnectorIdle ==
    RetryIdle /\ SchedIdle /\ MainIdle /\ ChainIdle /\ ClampIdle /\ FeatureIdle

(***************************************************************************)
(* ErrorHandler.retry                                                      *)
(***************************************************************************)
\* Bounds of the retry specification.
MaxAttempts == 4
\* max_attempts ranges over -BelowZero .. MaxAttempts.
BelowZero == 1
\* retry(max_attempts, delay=1): the default delay.
RetryDefaultDelay == 1

OkOutcomes == {"ok"}
Errors == {"E1", "E2"}
Outcomes == OkOutcomes \cup Errors

\* range(max_attempts): the loop runs while attempt < max_attempts.
RetryInRange(attempt, max_attempts) == attempt < max_attempts

RetryContinueOffByOne(attempt, max_attempts) == attempt < max_attempts
\* `if attempt < max_attempts - 1:` sleep and retry, else raise.
RetryContinue(attempt, max_attempts) == attempt < max_attempts - 1

RetryInit ==
    /\ r_max \in (0 - BelowZero)..MaxAttempts
    /\ r_script \in [1..MaxAttempts -> Outcomes]
    /\ r_pc = "loop"
    /\ r_attempt = 0
    /\ r_calls = <<>>
    /\ r_result = ""
    /\ r_slept = 0
    /\ NotRetryIdle

\* One pass of the loop body: `return func(*args, **kwargs)` or the handler.
RetryInvoke ==
    /\ r_pc = "loop"
    /\ RetryInRange(r_attempt, r_max)
    /\ LET outcome == r_script[Len(r_calls) + 1] IN
        /\ r_calls' = Append(r_calls, outcome)
        /\ IF outcome \in OkOutcomes
             THEN /\ r_pc' = "returned"
                  /\ r_result' = outcome
             ELSE IF RetryContinue(r_attempt, r_max)
                    THEN /\ r_pc' = "sleep"
                         /\ r_result' = r_result
                    ELSE /\ r_pc' = "raised"
                         /\ r_result' = outcome
    /\ UNCHANGED <<r_max, r_script, r_attempt, r_slept, notRetry>>

\* time.sleep(delay), then the next iteration of the for loop.
RetrySleep ==
    /\ r_pc = "sleep"
    /\ r_slept' = r_slept + RetryDefaultDelay
    /\ r_attempt' = r_attempt + 1
    /\ r_pc' = "loop"
    /\ UNCHANGED <<r_max, r_script, r_calls, r_result, notRetry>>

\* range(max_attempts) is exhausted without a return or a raise: the wrapper
\* falls off its end and returns None.
RetryFallThrough ==
    /\ r_pc = "loop"
    /\ ~RetryInRange(r_attempt, r_max)
    /\ r_pc' = "returned"
    /\ r_result' = "None"
    /\ UNCHANGED <<r_max, r_script, r_attempt, r_calls, r_slept, notRetry>>

RetryNext == RetryInvoke \/ RetrySleep \/ RetryFallThrough

SpecRetry == RetryInit /\ [][RetryNext]_vars

\* Index of the first successful invocation of the scripted operation;
\* MaxAttempts + 1 stands for "never".
FirstSuccess ==
    IF \E i \in 1..MaxAttempts : r_script[i] \in OkOutcomes
      THEN CHOOSE i \in 1..MaxAttempts :
              /\ r_script[i] \in OkOutcomes
              /\ \A j \in 1..(i - 1) : r_script[j] \notin OkOutcomes
      ELSE MaxAttempts + 1

RetryDone == r_pc \in {"returned", "raised"}

\* C2: with max_attempts >= 1 the wrapped operation is invoked exactly
\* min(k, max_attempts) times, k the index of its first success; the wrapper
\* returns that success if k <= max_attempts and otherwise raises the error of
\* the max_attempts-th invocation.
C2_RetryContract ==
    r_max >= 1 =>
        /\ Len(r_calls) <= Min(FirstSuccess, r_max)
        /\ RetryDone => Len(r_calls) = Min(FirstSuccess, r_max)
        /\ r_pc = "returned" =>
              /\ FirstSuccess <= r_max
              /\ r_result = r_script[FirstSuccess]
              /\ r_result \in OkOutcomes
        /\ r_pc = "raised" =>
              /\ FirstSuccess > r_max
              /\ r_result = r_script[r_max]
        /\ ~RetryDone => ENABLED RetryNext

\* An operation that fails twice and then succeeds, under max_attempts = 3,
\* has been invoked three times and the wrapper has returned its success.
C2_Witness ==
    /\ r_max = 3
    /\ r_pc = "returned"
    /\ Len(r_calls) = 3
    /\ r_calls[1] \in Errors /\ r_calls[2] \in Errors /\ r_calls[3] = "ok"
    /\ r_slept = 2 * RetryDefaultDelay

(***************************************************************************)
(* The collection loop of DataCollector.collect_data (and of the older     *)
(* script aqi_data_fetcher.main, which has the same loop), with per-cycle  *)
(* work that takes no time and sleeps that last exactly `interval`.        *)
(***************************************************************************)
\* Bounds of the scheduling specification.
MaxTotal == 100
MaxInterval == 30

LoopCondInclusive(elapsed, total) == elapsed <= total
\* `while time.time() - start_time < collection_time:`
LoopCond(elapsed, total) == elapsed < total

\* `time_remaining = collection_time - time_elapsed`
TimeRemaining(elapsed, total) == total - elapsed

\* `if time_remaining > interval:` sleep, else break.
ShouldSleep(elapsed, total, wait) == TimeRemaining(elapsed, total) > wait

SchedInit ==
    /\ s_total \in 0..MaxTotal
    /\ s_interval \in 1..MaxInterval
    /\ s_now = 0
    /\ s_pc = "test"
    /\ s_starts = <<>>
    /\ NotSchedIdle

\* The while test; when it passes, the cycle's body (fetch, process, insert,
\* upload) runs at the current elapsed time and takes no time.
SchedCycle ==
    /\ s_pc = "test"
    /\ IF LoopCond(s_now, s_total)
         THEN /\ s_starts' = Append(s_starts, s_now)
              /\ s_pc' = "tail"
         ELSE /\ s_starts' = s_starts
              /\ s_pc' = "done"
    /\ UNCHANGED <<s_total, s_interval, s_now, notSched>>

\* The end of the loop body: sleep for `interval` or break.
SchedWait ==
    /\ s_pc = "tail"
    /\ IF ShouldSleep(s_now, s_total, s_interval)
         THEN /\ s_now' = s_now + s_interval
              /\ s_pc' = "test"
         ELSE /\ s_now' = s_now
              /\ s_pc' = "done"
    /\ UNCHANGED <<s_total, s_interval, s_starts, notSched>>

SchedNext == SchedCycle \/ SchedWait

SpecSched == SchedInit /\ [][SchedNext]_vars

\* Number of k >= 0 with k * interval < total.
CyclesBelow(total, wait) == (total + wait - 1) \div wait

\* C1: with instantaneous work and exact sleeps, the cycles start exactly at
\* the elapsed times k*interval that are strictly less than
\* total_collection_time: 4 cycles (0, 30, 60, 90) for 100/30, and exactly one
\* cycle when 0 < total_collection_time < interval.
C1_CycleStarts ==
    /\ \A i \in 1..Len(s_starts) :
          /\ s_starts[i] = (i - 1) * s_interval
          /\ s_starts[i] < s_total
    /\ s_pc = "done" =>
          /\ Len(s_starts) = CyclesBelow(s_total, s_interval)
          /\ (s_total = 100 /\ s_interval = 30) => s_starts = <<0, 30, 60, 90>>
          /\ (0 < s_total /\ s_total < s_interval) => Len(s_starts) = 1
    /\ s_pc \in {"test", "tail"} => ENABLED SchedNext

\* The run with total_collection_time = 100 and interval = 30 has ended after
\* its fourth cycle, at elapsed time 90.
C1_Witness ==
    /\ s_total = 100 /\ s_interval = 30
    /\ s_pc = "done"
    /\ s_starts = <<0, 30, 60, 90>>
    /\ s_now = 90

(***************************************************************************)
(* Python values.  A scalar is [t, v]: t its type, v its integer payload.  *)
(* A JSON object is a record with the set `keys` of the keys it has; the   *)
(* field of an absent key holds a filler that is never read.               *)
(***************************************************************************)
PyNone == [t |-> "none", v |-> 0]
PyInt(n) == [t |-> "int", v |-> n]
\* The string "-" the air-quality API sends for an unknown aqi.
Dash == [t |-> "str", v |-> 0]

\* iaqi maps: pollutant code -> its v value.
NoIaqi == [p \in {} |-> 0]
SomeIaqi == [p \in {"pm25", "pm10"} |-> IF p = "pm25" THEN 20 ELSE 30]

\* The `data` member of an air-quality response.
AqiBody(kind, keys, aqi, iaqi) ==
    [t |-> kind, keys |-> keys, aqi |-> aqi, iaqi |-> iaqi]
NoBody == AqiBody("none", {}, PyNone, NoIaqi)

\* An air-quality response (None, a JSON value that is no object, an object).
AqiRaw(kind, keys, body) == [t |-> kind, keys |-> keys, data |-> body]
\* A carbon-intensity response.
CarbonRaw(kind, keys, ci) == [t |-> kind, keys |-> keys, carbonIntensity |-> ci]

AqiNone == AqiRaw("none", {}, NoBody)
CarbonNone == CarbonRaw("none", {}, PyNone)

AqiGood(aqi, iaqi) ==
    AqiRaw("dict", {"status", "data"}, AqiBody("dict", {"aqi", "iaqi"}, aqi, iaqi))

\* Responses the air-quality source can give to one request.
AqiReadings ==
    { AqiNone,
      AqiRaw("other", {}, NoBody),
      AqiRaw("dict", {"data"}, AqiBody("dict", {"aqi", "iaqi"}, PyInt(50), SomeIaqi)),
      AqiRaw("dict", {"status"}, NoBody),
      AqiRaw("dict", {"status", "data"}, AqiBody("other", {}, PyNone, NoIaqi)),
      AqiRaw("dict", {"status", "data"}, AqiBody("dict", {"iaqi"}, PyNone, SomeIaqi)),
      AqiRaw("dict", {"status", "data"}, AqiBody("dict", {"aqi"}, PyInt(50), NoIaqi)),
      AqiGood(PyInt(50), SomeIaqi),
      AqiGood(PyInt(600), SomeIaqi),
      AqiGood(Dash, NoIaqi) }

CarbonAllKeys == {"carbonIntensity", "datetime", "updatedAt"}

\* Responses the carbon-intensity source can give to one request.
CarbonReadings ==
    { CarbonNone,
      CarbonRaw("other", {}, PyNone),
      CarbonRaw("dict", {"carbonIntensity", "updatedAt"}, PyInt(100)),
      CarbonRaw("dict", {"datetime", "updatedAt"}, PyNone),
      CarbonRaw("dict", CarbonAllKeys, PyInt(100)),
      CarbonRaw("dict", CarbonAllKeys, PyInt(1200)),
      CarbonRaw("dict", CarbonAllKeys, PyNone) }

(***************************************************************************)
(* data_processor.py                                                       *)
(***************************************************************************)
\* BasicDataValidator.validate without nested_keys (the carbon validator).
BasicValidate(data, required_keys) ==
    /\ data.t = "dict"
    /\ required_keys \subseteq data.keys

BasicValidateNestedNoNested(data, required_keys, last_key) ==
    BasicValidate(data, required_keys)
\* BasicDataValidator.validate with nested_keys = ['data', last_key]:
\* nested_data = data.get('data', {}) must be a dict holding last_key.
BasicValidateNested(data, required_keys, last_key) ==
    /\ BasicValidate(data, required_keys)
    /\ LET nested_data == IF "data" \in data.keys
                            THEN data.data
                            ELSE AqiBody("dict", {}, PyNone, NoIaqi)
       IN  /\ nested_data.t = "dict"
           /\ last_key \in nested_data.keys

\* create_data_processor: the two validators' configuration.
AqiRequiredKeys == {"status", "data"}
AqiNestedLast == "aqi"
CarbonRequiredKeys == {"carbonIntensity", "datetime", "updatedAt"}

\* A processed record; NoRecord is Python's None.
Record(city, aqi, timestamp, iaqi, ci) ==
    [t |-> "dict", city |-> city, aqi |-> aqi, timestamp |-> timestamp,
     iaqi |-> iaqi, carbon_intensity |-> ci]
NoRecord ==
    [t |-> "none", city |-> "", aqi |-> PyNone, timestamp |-> 0,
     iaqi |-> NoIaqi, carbon_intensity |-> PyNone]

\* AQIDataProcessor.process; carbon_intensity is not set yet (absent key).
AQIProcess(data, clock) ==
    IF ~BasicValidateNested(data, AqiRequiredKeys, AqiNestedLast)
      THEN NoRecord
      ELSE LET result == data.data
               aqi == result.aqi
           IN  Record("Sakarya",
                      IF aqi # Dash THEN aqi ELSE PyNone,
                      clock,
                      IF "iaqi" \in result.keys THEN result.iaqi ELSE NoIaqi,
                      PyNone)

\* CarbonIntensityDataProcessor.process: the carbonIntensity it returns, and
\* whether it returned a record at all.
CarbonProcessOk(data) == BasicValidate(data, CarbonRequiredKeys)
CarbonProcess(data) == IF CarbonProcessOk(data) THEN data.carbonIntensity ELSE PyNone

ProcessAllDataAqiOnly(aqi_data, carbon, clock) ==
    LET processed_aqi == AQIProcess(aqi_data, clock) IN
    IF processed_aqi.t = "dict"
      THEN [processed_aqi EXCEPT !.carbon_intensity = CarbonProcess(carbon)]
      ELSE NoRecord
\* CombinedDataProcessor.process_all_data (the processors are initialized by
\* create_data_processor before DataCollector uses them).
ProcessAllData(aqi_data, carbon, clock) ==
    LET processed_aqi == AQIProcess(aqi_data, clock) IN
    IF processed_aqi.t = "dict" /\ CarbonProcessOk(carbon)
      THEN [processed_aqi EXCEPT !.carbon_intensity = CarbonProcess(carbon)]
      ELSE NoRecord

(***************************************************************************)
(* data_fetcher.py, postgresql_connector.py, hopsworks_uploader.py: what   *)
(* one cycle of collect_data calls.                                        *)
(***************************************************************************)
\* Bounds of the collector specification.
MaxCollect == 3
MaxWait == 2
MaxFetchTime == 1

\* @ErrorHandler.retry(max_attempts=3, delay=5) on upload_data_from_postgresql.
UploadMaxAttempts == 3
UploadDelay == 5
\* fetch_data(limit=100); also the value it falls back to when handed a dict.
FetchDefaultLimit == 100

PollutantCodes == {"co", "dew", "h", "no2", "o3", "p", "pm10", "pm25", "so2", "t", "w"}

\* @lru_cache(maxsize=1) on fetch(self): the one slot is keyed by self, so a
\* filled slot answers every later call; `fresh` is what a request returns.
LruFetch(cache, fresh) == IF cache.full THEN cache.value ELSE fresh
EmptyCache(filler) == [full |-> FALSE, value |-> filler]
FullCache(value) == [full |-> TRUE, value |-> value]

\* The VALUES tuple of PostgreSQLConnector.insert_data.
InsertRow(data) ==
    [city |-> data.city, aqi |-> data.aqi, timestamp |-> data.timestamp,
     carbon_intensity |-> data.carbon_intensity,
     iaqi |-> [p \in PollutantCodes |->
                 IF p \in DOMAIN data.iaqi THEN PyInt(data.iaqi[p]) ELSE PyNone]]

RECURSIVE Reverse(_)
Reverse(seq) == IF seq = <<>> THEN <<>> ELSE Append(Reverse(Tail(seq)), Head(seq))

\* PostgreSQLConnector.fetch_data: SELECT * ... ORDER BY timestamp DESC LIMIT n.
\* Rows are inserted with strictly increasing timestamps, so the newest-first
\* order is the reverse of the insertion order.
FetchData(rows, limit) == SubSeq(Reverse(rows), 1, Min(limit, Len(rows)))

\* The rows one successful upload_data_from_postgresql(batch_size=<the record>)
\* inserts into the feature group, named by their timestamps: fetch_data gets
\* a dict as its limit and uses 100.
UploadBatch(rows) ==
    LET batch == FetchData(rows, FetchDefaultLimit)
    IN  [i \in 1..Len(batch) |-> batch[i].timestamp]

\* `if not postgresql_connector.test_connection(): ... return None`
CreateSkipsTest(test_result) == TRUE
CreateReturnsApplication(test_result) == test_result

\* all_data.append(processed_data)
BufferPrepend(buffer, record) == <<record>> \o buffer
BufferAppend(buffer, record) == Append(buffer, record)

MainInit ==
    /\ collection_time \in 0..MaxCollect
    /\ interval \in 1..MaxWait
    /\ now = 0
    /\ pc = "create"
    /\ all_data = <<>>
    /\ raw_aqi_data = AqiNone
    /\ carbon_data = CarbonNone
    /\ processed_data = NoRecord
    /\ aqi_cache = EmptyCache(AqiNone)
    /\ carbon_cache = EmptyCache(CarbonNone)
    /\ aqi_source = AqiNone
    /\ carbon_source = CarbonNone
    /\ requests = [aqi |-> 0, carbon |-> 0]
    /\ db = <<>>
    /\ transmitted = <<>>
    /\ up_attempt = 0
    /\ cycle = 0
    /\ c_buf_len = 0
    /\ c_insert = "none"
    /\ c_upload = 0
    /\ c_insert_calls = 0
    /\ exported = [got |-> FALSE, data |-> <<>>]
    /\ connection_test = [calls |-> 0, result |-> "none"]
    /\ NotMainIdle

\* app = ApplicationFactory.create(): the one call of test_connection, which
\* returns True or False; on False create returns None, and main's app.run()
\* raises AttributeError, which main's `except Exception` logs.
CreateApplication ==
    /\ pc = "create"
    /\ \E result \in BOOLEAN :
          /\ connection_test' = [calls |-> connection_test.calls + 1,
                                 result |-> IF result THEN "True" ELSE "False"]
          /\ pc' = IF CreateReturnsApplication(result) THEN "run" ELSE "no_app"
    /\ UNCHANGED <<collection_time, interval, now, all_data, raw_aqi_data,
                   carbon_data, processed_data, aqi_cache, carbon_cache,
                   aqi_source, carbon_source, requests, db, transmitted,
                   up_attempt, cycle, c_buf_len, c_insert, c_upload,
                   c_insert_calls, exported, notMain>>

\* Application.run: `if not ...data_uploader.check_connection(): return`,
\* else collect_and_save_data() enters collect_data.
RunApplication ==
    /\ pc = "run"
    /\ \E connected \in BOOLEAN :
          pc' = IF connected THEN "test" ELSE "terminated"
    /\ UNCHANGED <<collection_time, interval, now, all_data, raw_aqi_data,
                   carbon_data, processed_data, aqi_cache, carbon_cache,
                   aqi_source, carbon_source, requests, db, transmitted,
                   up_attempt, cycle, c_buf_len, c_insert, c_upload,
                   c_insert_calls, exported, connection_test, notMain>>

\* `while time.time() - start_time < collection_time:`
LoopTest ==
    /\ pc = "test"
    /\ IF LoopCond(now, collection_time)
         THEN /\ pc' = "fetch_aqi"
              /\ cycle' = cycle + 1
              /\ c_buf_len' = Len(all_data)
              /\ c_insert' = "none"
              /\ c_upload' = 0
              /\ c_insert_calls' = 0
         ELSE /\ pc' = "return"
              /\ UNCHANGED <<cycle, c_buf_len, c_insert, c_upload,
                             c_insert_calls>>
    /\ UNCHANGED <<collection_time, interval, now, all_data, raw_aqi_data,
                   carbon_data, processed_data, aqi_cache, carbon_cache,
                   aqi_source, carbon_source, requests, db, transmitted,
                   up_attempt, exported, connection_test, notMain>>

\* raw_aqi_data = self.data_fetcher.fetch_air_quality_data()
FetchAqi ==
    /\ pc = "fetch_aqi"
    /\ \E fresh \in AqiReadings, d \in 0..MaxFetchTime :
          /\ aqi_cache.full => d = 0
          /\ aqi_source' = fresh
          /\ raw_aqi_data' = LruFetch(aqi_cache, fresh)
          /\ aqi_cache' = FullCache(LruFetch(aqi_cache, fresh))
          /\ requests' = [requests EXCEPT
                            !.aqi = IF aqi_cache.full THEN @ ELSE @ + 1]
          /\ now' = now + d
    /\ pc' = "fetch_carbon"
    /\ UNCHANGED <<collection_time, interval, all_data, carbon_data,
                   processed_data, carbon_cache, carbon_source, db,
                   transmitted, up_attempt, cycle, c_buf_len, c_insert,
                   c_insert_calls, c_upload, exported, connection_test,
                   notMain>>

\* carbon_data = self.data_fetcher.fetch_carbon_intensity_data()
FetchCarbon ==
    /\ pc = "fetch_carbon"
    /\ \E fresh \in CarbonReadings, d \in 0..MaxFetchTime :
          /\ carbon_cache.full => d = 0
          /\ carbon_source' = fresh
          /\ carbon_data' = LruFetch(carbon_cache, fresh)
          /\ carbon_cache' = FullCache(LruFetch(carbon_cache, fresh))
          /\ requests' = [requests EXCEPT
                            !.carbon = IF carbon_cache.full THEN @ ELSE @ + 1]
          /\ now' = now + d
    /\ pc' = "process"
    /\ UNCHANGED <<collection_time, interval, all_data, raw_aqi_data,
                   processed_data, aqi_cache, aqi_source, db, transmitted,
                   up_attempt, cycle, c_buf_len, c_insert, c_insert_calls,
                   c_upload, exported, connection_test, notMain>>

\* processed_data = process_all_data(...); if processed_data: all_data.append
Process ==
    /\ pc = "process"
    /\ LET result == ProcessAllData(raw_aqi_data, carbon_data, now) IN
          /\ processed_data' = result
          /\ IF result.t = "dict"
               THEN /\ all_data' = BufferAppend(all_data, result)
                    /\ pc' = "insert"
               ELSE /\ all_data' = all_data
                    /\ pc' = "tail"
    /\ UNCHANGED <<collection_time, interval, now, raw_aqi_data, carbon_data,
                   aqi_cache, carbon_cache, aqi_source, carbon_source,
                   requests, db, transmitted, up_attempt, cycle, c_buf_len,
                   c_insert, c_insert_calls, c_upload, exported,
                   connection_test, notMain>>

\* self.postgresql_connector.insert_data(processed_data): it commits the row,
\* or raises; handle_errors logs and re-raises, nothing in collect_data or in
\* collect_and_save_data catches, and Application.run logs the exception.
InsertData ==
    /\ pc = "insert"
    /\ \E ok \in BOOLEAN :
          IF ok
            THEN /\ db' = Append(db, InsertRow(processed_data))
                 /\ c_insert' = "ok"
                 /\ pc' = "upload"
            ELSE /\ db' = db
                 /\ c_insert' = "failed"
                 /\ pc' = "failed"
    /\ c_insert_calls' = c_insert_calls + 1
    /\ up_attempt' = 0
    /\ UNCHANGED <<collection_time, interval, now, all_data, raw_aqi_data,
                   carbon_data, processed_data, aqi_cache, carbon_cache,
                   aqi_source, carbon_source, requests, transmitted, cycle,
                   c_buf_len, c_upload, exported, connection_test, notMain>>

\* One attempt of upload_data_from_postgresql under the retry wrapper, called
\* by HopsworksDataUploader.upload, which logs and swallows the final error.
UploadAttempt ==
    /\ pc = "upload"
    /\ c_upload' = c_upload + 1
    /\ \E ok \in BOOLEAN :
          IF ok
            THEN /\ transmitted' =
                      IF db = <<>> THEN transmitted
                                   ELSE Append(transmitted, UploadBatch(db))
                 /\ pc' = "tail"
            ELSE /\ transmitted' = transmitted
                 /\ pc' = IF RetryContinue(up_attempt, UploadMaxAttempts)
                            THEN "upload_delay"
                            ELSE "tail"
    /\ UNCHANGED <<collection_time, interval, now, all_data, raw_aqi_data,
                   carbon_data, processed_data, aqi_cache, carbon_cache,
                   aqi_source, carbon_source, requests, db, up_attempt, cycle,
                   c_buf_len, c_insert, c_insert_calls, exported,
                   connection_test, notMain>>

\* time.sleep(delay) of the retry wrapper, then its next attempt.
UploadBackoff ==
    /\ pc = "upload_delay"
    /\ now' = now + UploadDelay
    /\ up_attempt' = up_attempt + 1
    /\ pc' = "upload"
    /\ UNCHANGED <<collection_time, interval, all_data, raw_aqi_data,
                   carbon_data, processed_data, aqi_cache, carbon_cache,
                   aqi_source, carbon_source, requests, db, transmitted,
                   cycle, c_buf_len, c_insert, c_insert_calls, c_upload,
                   exported, connection_test, notMain>>

\* time_elapsed, time_remaining, `if time_remaining > interval:` ... else break
LoopTail ==
    /\ pc = "tail"
    /\ pc' = IF ShouldSleep(now, collection_time, interval) THEN "sleep" ELSE "return"
    /\ UNCHANGED <<collection_time, interval, now, all_data, raw_aqi_data,
                   carbon_data, processed_data, aqi_cache, carbon_cache,
                   aqi_source, carbon_source, requests, db, transmitted,
                   up_attempt, cycle, c_buf_len, c_insert, c_insert_calls,
                   c_upload, exported, connection_test, notMain>>

\* time.sleep(interval)
Sleep ==
    /\ pc = "sleep"
    /\ now' = now + interval
    /\ pc' = "test"
    /\ UNCHANGED <<collection_time, interval, all_data, raw_aqi_data,
                   carbon_data, processed_data, aqi_cache, carbon_cache,
                   aqi_source, carbon_source, requests, db, transmitted,
                   up_attempt, cycle, c_buf_len, c_insert, c_insert_calls,
                   c_upload, exported, connection_test, notMain>>

\* `return all_data`; collect_and_save_data receives it and saves it.
ReturnAndSave ==
    /\ pc = "return"
    /\ exported' = [got |-> TRUE, data |-> all_data]
    /\ pc' = "done"
    /\ UNCHANGED <<collection_time, interval, now, all_data, raw_aqi_data,
                   carbon_data, processed_data, aqi_cache, carbon_cache,
                   aqi_source, carbon_source, requests, db, transmitted,
                   up_attempt, cycle, c_buf_len, c_insert, c_insert_calls,
                   c_upload, connection_test, notMain>>

\* The points where the control thread blocks: the request inside a fetch that
\* is not answered from the cache, the sleep between cycles, the retry delay.
Blocking ==
    \/ pc = "fetch_aqi" /\ ~aqi_cache.full
    \/ pc = "fetch_carbon" /\ ~carbon_cache.full
    \/ pc \in {"sleep", "upload_delay"}

\* KeyboardInterrupt is no Exception: neither retry, handle_errors nor
\* HopsworksDataUploader.upload catches it; it unwinds collect_data and
\* collect_and_save_data, whose local all_data is dropped (the variable keeps
\* what the buffer held), and Application.run logs "interrupted by user".
Interrupt ==
    /\ Blocking
    /\ pc' = "interrupted"
    /\ UNCHANGED <<collection_time, interval, now, all_data, raw_aqi_data,
                   carbon_data, processed_data, aqi_cache, carbon_cache,
                   aqi_source, carbon_source, requests, db, transmitted,
                   up_attempt, cycle, c_buf_len, c_insert, c_insert_calls,
                   c_upload, exported, connection_test, notMain>>

Next ==
    \/ CreateApplication \/ RunApplication
    \/ LoopTest \/ FetchAqi \/ FetchCarbon \/ Process \/ InsertData
    \/ UploadAttempt \/ UploadBackoff \/ LoopTail \/ Sleep \/ ReturnAndSave
    \/ Interrupt

Spec == MainInit /\ [][Next]_vars

(***************************************************************************)
(* Properties of the collector.                                            *)
(***************************************************************************)
Range(seq) == {seq[i] : i \in 1..Len(seq)}

\* The current cycle has run its process_all_data step.
CycleProcessed == pc \in {"insert", "upload", "upload_delay", "tail", "sleep", "failed"}

\* C3: a failure in any per-cycle stage (fetch, normalize, insert_data,
\* upload) is caught inside the loop: collect_data never raises because of
\* one, and the run is not ended by it.
C3_StageFailureCaught == pc # "failed"

\* C4: in every cycle whose reading normalized successfully both sinks are
\* attempted: when the cycle is over (the loop tail is reached or the run has
\* ended in it), insert_data and the upload have both been called, whatever
\* the outcome of the other.
C4_BothSinksAttempted ==
    (pc \in {"tail", "failed"} /\ processed_data.t = "dict") =>
        /\ c_insert # "none"
        /\ c_upload >= 1

\* C5: after a KeyboardInterrupt every record already appended to the
\* session buffer has been handed to the caller for export.
C5_InterruptKeepsBuffer ==
    pc = "interrupted" =>
        \A i \in 1..Len(all_data) :
            exported.got /\ all_data[i] \in Range(exported.data)

\* C6: every fetch of every cycle performs a new request and returns that
\* cycle's outcome, never the result of an earlier cycle.
C6_FetchStateless ==
    /\ pc = "fetch_carbon" =>
          /\ raw_aqi_data = aqi_source
          /\ requests.aqi = cycle
    /\ pc = "process" =>
          /\ raw_aqi_data = aqi_source
          /\ carbon_data = carbon_source
          /\ requests.aqi = cycle /\ requests.carbon = cycle

\* Either fetch of the current cycle returned None.
FetchReturnedNone == raw_aqi_data.t = "none" \/ carbon_data.t = "none"

\* C9: a cycle in which either fetch returned None is skipped:
\* process_all_data returns None, nothing is appended to the buffer, neither
\* sink is called, nothing is raised, and the loop goes on to its wait/exit
\* decision.
C9_SkippedCycle ==
    /\ pc \in {"insert", "upload", "upload_delay", "failed"} => ~FetchReturnedNone
    /\ (pc \in {"tail", "sleep"} /\ FetchReturnedNone) =>
          /\ processed_data = NoRecord
          /\ Len(all_data) = c_buf_len
          /\ c_insert = "none"
          /\ c_upload = 0
          /\ Len(db) <= Len(all_data)
    /\ (pc = "tail" /\ FetchReturnedNone) => ENABLED LoopTail

\* A first cycle whose air-quality fetch returned None while the carbon fetch
\* gave a reading has been skipped, and the loop is in its sleep.
C9_Witness ==
    /\ pc = "sleep"
    /\ cycle = 1
    /\ raw_aqi_data.t = "none"
    /\ carbon_data.t = "dict"
    /\ all_data = <<>>

\* The schema check as the specification words it.
AqiPassesSchema(r) ==
    /\ r.t = "dict"
    /\ "status" \in r.keys /\ "data" \in r.keys
    /\ r.data.t = "dict" /\ "aqi" \in r.data.keys
CarbonPassesSchema(c) ==
    /\ c.t = "dict"
    /\ "carbonIntensity" \in c.keys /\ "datetime" \in c.keys /\ "updatedAt" \in c.keys

\* C10: process_all_data returns a combined record iff both raw readings pass
\* the schema check; otherwise it returns None (no repaired record), and
\* nothing of that cycle is buffered or persisted.
C10_SchemaDrop ==
    CycleProcessed =>
        /\ processed_data.t = "dict" <=>
              (AqiPassesSchema(raw_aqi_data) /\ CarbonPassesSchema(carbon_data))
        /\ processed_data.t # "dict" =>
              /\ processed_data = NoRecord
              /\ Len(all_data) = c_buf_len
              /\ c_insert = "none" /\ c_upload = 0
              /\ pc \in {"tail", "sleep"}
        /\ processed_data.t = "dict" =>
              /\ Len(all_data) = c_buf_len + 1
              /\ all_data[Len(all_data)] = processed_data
              /\ processed_data.carbon_intensity = carbon_data.carbonIntensity

\* An air-quality response without its `status` key, next to a complete carbon
\* response, has been dropped: no record, and the cycle is at its tail.
C10_Witness ==
    /\ pc = "tail"
    /\ raw_aqi_data.t = "dict" /\ "status" \notin raw_aqi_data.keys
    /\ CarbonPassesSchema(carbon_data)
    /\ processed_data = NoRecord
    /\ all_data = <<>> /\ db = <<>>


\* Both raw readings of the current cycle pass the schema check.
ReadingsPass == AqiPassesSchema(raw_aqi_data) /\ CarbonPassesSchema(carbon_data)

\* No cycle up to and including the current one has produced a record: none
\* has started, or the buffer was empty when this one started and a fetch or
\* the normalization of its readings failed.
NoRecordSoFar == cycle = 0 \/ (c_buf_len = 0 /\ ~ReadingsPass)

\* C11: if no cycle of the run produces a record, collect_data does not raise
\* (insert_data, the one call that can, is never made) and returns an empty
\* session buffer to its caller.
C11_EmptyRun ==
    /\ (CycleProcessed /\ NoRecordSoFar) =>
          /\ all_data = <<>>
          /\ c_insert_calls = 0
          /\ pc # "failed"
    /\ (pc = "return" /\ NoRecordSoFar) =>
          /\ all_data = <<>>
          /\ ENABLED ReturnAndSave
    /\ (pc = "done" /\ NoRecordSoFar) =>
          exported = [got |-> TRUE, data |-> <<>>]

\* A run of at least two cycles, none of which produced a record, has
\* returned its empty buffer.
C11_Witness ==
    /\ pc = "done"
    /\ cycle >= 2
    /\ ~ReadingsPass
    /\ c_buf_len = 0
    /\ exported = [got |-> TRUE, data |-> <<>>]

\* C12: both sinks of a cycle run under the retry wrapper: insert_data is
\* given up on (its error becomes the cycle's write failure) only after
\* max_attempts calls, and so is the upload.
C12_SinksRetried ==
    /\ c_insert = "failed" => c_insert_calls = UploadMaxAttempts
    /\ c_upload <= UploadMaxAttempts
    /\ (pc \in {"tail", "sleep"} /\ c_upload >= 1 /\ Len(transmitted) = 0) =>
          c_upload = UploadMaxAttempts

IsPrefix(earlier, later) ==
    /\ Len(earlier) <= Len(later)
    /\ SubSeq(later, 1, Len(earlier)) = earlier

\* The records of a buffer carry non-decreasing timestamps.
TimestampOrdered(buffer) ==
    \A i \in 1..Len(buffer), j \in 1..Len(buffer) :
        i < j => buffer[i].timestamp <= buffer[j].timestamp

\* C18: the session buffer is append-only and ordered by cycle: every step of
\* collect_data leaves the earlier contents as a prefix of the later ones,
\* only the append of the cycle's one record changes it, no cycle adds more
\* than one record, and the timestamps are non-decreasing.
C18_AppendOnly ==
    [][/\ IsPrefix(all_data, all_data')
       /\ all_data' # all_data =>
             /\ pc = "process"
             /\ all_data' = Append(all_data, processed_data')
       /\ Len(all_data') <= c_buf_len' + 1
       /\ Len(all_data') <= cycle'
       /\ TimestampOrdered(all_data')]_vars

\* Three cycles have each appended their record.
C18_Witness ==
    /\ cycle = 3
    /\ Len(all_data) = 3
    /\ all_data[1].timestamp < all_data[3].timestamp

\* C19: the persistence backend is checked once, before the run, and in an
\* execution where test_connection returned False no collection cycle ever
\* starts: no fetch, no insert_data, no upload.
C19_StartupPrecondition ==
    /\ connection_test.calls <= 1
    /\ pc # "create" => connection_test.calls = 1
    /\ cycle >= 1 => connection_test.result = "True"
    /\ connection_test.result = "False" =>
          /\ pc = "no_app"
          /\ cycle = 0
          /\ requests = [aqi |-> 0, carbon |-> 0]
          /\ c_insert_calls = 0 /\ db = <<>>
          /\ c_upload = 0 /\ transmitted = <<>>
          /\ all_data = <<>>

\* test_connection has returned False and main is left without an
\* application.
C19_Witness ==
    /\ pc = "no_app"
    /\ connection_test = [calls |-> 1, result |-> "False"]

(***************************************************************************)
(* hopsworks_uploader.py: the validators of DataPreprocessor.              *)
(* More Python scalars: a float carries its value in tenths, so that       *)
(* int(99.7) = 99 and float(50) = 50.0 are conversions the model performs. *)
(***************************************************************************)
PyFloat(tenths) == [t |-> "float", v |-> tenths]
NaN == [t |-> "nan", v |-> 0]
\* A string that is no number; a string holding an integer literal; a string
\* holding a decimal literal (value in tenths); a list; a dict.
PyStr(id) == [t |-> "str", v |-> id]
IntStr(n) == [t |-> "intstr", v |-> n]
DecStr(tenths) == [t |-> "decstr", v |-> tenths]
PyList == [t |-> "list", v |-> 0]
PyDict == [t |-> "dict", v |-> 0]
\* datetime.isoformat() of the naive local time `time`.
Iso(time) == [t |-> "iso", v |-> time]
NotAvailable == [t |-> "str", v |-> 9]

\* Truncation toward zero, as int() does.
TruncDiv(a, b) == IF a >= 0 THEN a \div b ELSE 0 - ((0 - a) \div b)
ClipUpperOnly(x, lo, hi) == Min(x, hi)
ClipWrap(x, lo, hi) ==
    IF x < lo THEN x + (hi - lo) ELSE IF x > hi THEN x - (hi - lo) ELSE x
\* np.clip(x, lo, hi), lo <= hi
Clip(x, lo, hi) == Min(Max(x, lo), hi)

\* A record under validation: the set of its keys and one field per column.
ChainCols == {"city", "aqi", "timestamp", "iaqi", "carbon_intensity", "iaqi_pm25"}
Has(data, column) == column \in data.keys
Put(data, column, value) ==
    [data EXCEPT ![column] = value, !.keys = @ \cup {column}]

\* What a validator does: it returns the record or raises.
Returns(data) == [ok |-> TRUE, err |-> "", data |-> data]
Raises(err, data) == [ok |-> FALSE, err |-> err, data |-> data]

\* DataPreprocessorFactory.create: the configuration of the validators.
ExpectedColumns == <<"city", "aqi", "timestamp", "iaqi", "carbon_intensity">>
ExpectedTypes == [aqi |-> "float", carbon_intensity |-> "int"]
TypedColumns == <<"aqi", "carbon_intensity">>
ValueRanges == [aqi |-> <<0, 500>>, carbon_intensity |-> <<0, 1000>>]
NumericColumns == <<"aqi", "carbon_intensity">>
\* timedelta(days=1), in the model's time unit of half a day.
OneDay == 2

\* SchemaValidator.validate
SchemaValidate(data) ==
    LET missing_columns == Range(ExpectedColumns) \ data.keys
        iaqi_columns == {col \in data.keys : col \in {"iaqi_pm25"}}
        still_missing == IF "iaqi" \in missing_columns /\ iaqi_columns # {}
                           THEN missing_columns \ {"iaqi"}
                           ELSE missing_columns
    IN  IF still_missing # {} THEN Raises("ValueError", data) ELSE Returns(data)

\* expected_type(value), for a value that is not None and not already of the
\* expected type: the converted value, or the exception.
Convert(value, expected_type) ==
    IF expected_type = "float"
      THEN CASE value.t = "int" -> [ok |-> TRUE, err |-> "", val |-> PyFloat(10 * value.v)]
             [] value.t = "intstr" -> [ok |-> TRUE, err |-> "", val |-> PyFloat(10 * value.v)]
             [] value.t = "decstr" -> [ok |-> TRUE, err |-> "", val |-> PyFloat(value.v)]
             [] value.t \in {"str", "iso"} -> [ok |-> FALSE, err |-> "ValueError", val |-> value]
             [] OTHER -> [ok |-> FALSE, err |-> "TypeError", val |-> value]
      ELSE CASE value.t = "float" -> [ok |-> TRUE, err |-> "", val |-> PyInt(TruncDiv(value.v, 10))]
             [] value.t = "intstr" -> [ok |-> TRUE, err |-> "", val |-> PyInt(value.v)]
             [] value.t \in {"nan", "decstr", "str", "iso"} ->
                    [ok |-> FALSE, err |-> "ValueError", val |-> value]
             [] OTHER -> [ok |-> FALSE, err |-> "TypeError", val |-> value]

\* isinstance(value, expected_type)
IsInstance(value, expected_type) ==
    IF expected_type = "float" THEN value.t \in {"float", "nan"} ELSE value.t = "int"

\* The body of TypeValidator's loop for one column.
TypeValidateColumn(data, column) ==
    LET expected_type == ExpectedTypes[column] IN
    IF ~Has(data, column) THEN Returns(data)
    ELSE IF data[column].t = "none"
      THEN Returns(Put(data, column,
                       IF expected_type = "float" THEN NaN
                       ELSE IF expected_type = "int" THEN PyInt(0 - 1)
                       ELSE NotAvailable))
    ELSE IF IsInstance(data[column], expected_type) THEN Returns(data)
    ELSE LET c == Convert(data[column], expected_type)
         IN  IF c.ok THEN Returns(Put(data, column, c.val)) ELSE Raises(c.err, data)

\* TypeValidator.validate: the loop over the columns, ended by the first raise.
RECURSIVE TypeValidateFrom(_, _)
TypeValidateFrom(columns, data) ==
    IF columns = <<>> THEN Returns(data)
    ELSE LET r == TypeValidateColumn(data, Head(columns))
         IN  IF r.ok THEN TypeValidateFrom(Tail(columns), r.data) ELSE r

\* TypeValidator.validate
TypeValidate(data) == TypeValidateFrom(TypedColumns, data)

\* The body of OutlierDetector's loop for one column.  Comparing a string, a
\* list or a dict with a number raises TypeError; every comparison with NaN
\* is False.  A float is held in tenths, so its range is scaled.
OutlierColumn(data, column) ==
    LET min_val == ValueRanges[column][1]
        max_val == ValueRanges[column][2]
        value == data[column]
    IN  IF ~Has(data, column) \/ value.t = "none" THEN Returns(data)
        ELSE IF value.t = "int"
          THEN IF value.v < min_val \/ value.v > max_val
                 THEN Returns(Put(data, column, PyInt(Clip(value.v, min_val, max_val))))
                 ELSE Returns(data)
        ELSE IF value.t = "float"
          THEN IF value.v < 10 * min_val \/ value.v > 10 * max_val
                 THEN Returns(Put(data, column,
                                  PyFloat(Clip(value.v, 10 * min_val, 10 * max_val))))
                 ELSE Returns(data)
        ELSE IF value.t = "nan" THEN Returns(data)
        ELSE Raises("TypeError", data)

RECURSIVE OutlierValidateFrom(_, _)
OutlierValidateFrom(columns, data) ==
    IF columns = <<>> THEN Returns(data)
    ELSE LET r == OutlierColumn(data, Head(columns))
         IN  IF r.ok THEN OutlierValidateFrom(Tail(columns), r.data) ELSE r

\* OutlierDetector.validate
OutlierValidate(data) == OutlierValidateFrom(TypedColumns, data)

\* The body of MissingValueHandler's loop: data[column] raises KeyError for an
\* absent column.
MissingValueColumn(data, column) ==
    IF ~Has(data, column) THEN Raises("KeyError", data)
    ELSE IF data[column].t = "none" THEN Returns(Put(data, column, PyInt(0 - 1)))
    ELSE Returns(data)

RECURSIVE MissingValueValidateFrom(_, _)
MissingValueValidateFrom(columns, data) ==
    IF columns = <<>> THEN Returns(data)
    ELSE LET r == MissingValueColumn(data, Head(columns))
         IN  IF r.ok THEN MissingValueValidateFrom(Tail(columns), r.data) ELSE r

\* MissingValueHandler.validate
MissingValueValidate(data) == MissingValueValidateFrom(NumericColumns, data)

ConsistencyValidateFutureOnly(data, current_time) ==
    IF ~Has(data, "timestamp") THEN Returns(data)
    ELSE LET ts == data.timestamp IN
         IF ts.t = "iso"
           THEN IF ts.v > current_time
                  THEN Returns(Put(data, "timestamp", Iso(current_time)))
                  ELSE Returns(data)
         ELSE IF ts.t \in {"str", "intstr", "decstr"} THEN Raises("ValueError", data)
         ELSE Raises("TypeError", data)
\* ConsistencyChecker.validate: fromisoformat raises TypeError for a value
\* that is no string and ValueError for a string that is no ISO date.
ConsistencyValidate(data, current_time) ==
    IF ~Has(data, "timestamp") THEN Returns(data)
    ELSE LET ts == data.timestamp IN
         IF ts.t = "iso"
           THEN IF ts.v > current_time \/ ts.v < current_time - OneDay
                  THEN Returns(Put(data, "timestamp", Iso(current_time)))
                  ELSE Returns(data)
         ELSE IF ts.t \in {"str", "intstr", "decstr"} THEN Raises("ValueError", data)
         ELSE Raises("TypeError", data)

IntegrityFieldLenient(data, field, current_time) == Returns(data)
\* The body of IntegrityEnsurer's loop for one field: expected_types[field]
\* raises KeyError for a field the types do not list.
IntegrityField(data, field, current_time) ==
    IF Has(data, field) /\ data[field].t # "none" THEN Returns(data)
    ELSE IF field = "timestamp" THEN Returns(Put(data, field, Iso(current_time)))
    ELSE IF field \notin DOMAIN ExpectedTypes THEN Raises("KeyError", data)
    ELSE IF ExpectedTypes[field] \in {"int", "float"}
      THEN Returns(Put(data, field, PyInt(0 - 1)))
    ELSE Returns(Put(data, field, NotAvailable))

\* IntegrityEnsurer.validate
RECURSIVE IntegrityValidateFrom(_, _, _)
IntegrityValidateFrom(fields, data, current_time) ==
    IF fields = <<>> THEN Returns(data)
    ELSE LET r == IntegrityField(data, Head(fields), current_time)
         IN  IF r.ok THEN IntegrityValidateFrom(Tail(fields), r.data, current_time)
                     ELSE r
IntegrityValidate(data, current_time) ==
    IntegrityValidateFrom(ExpectedColumns, data, current_time)

(***************************************************************************)
(* DataPreprocessor.preprocess: the validators of DataPreprocessorFactory, *)
(* one step each, on a record drawn from a bounded set.                    *)
(***************************************************************************)
\* Bound of the chain specification: times range over 0..MaxTime.
MaxTime == 4

CityValues == {PyNone, PyStr(1)}
AqiValues == {PyNone, PyInt(50), PyInt(0 - 5), PyFloat(425), PyFloat(6005),
              NaN, PyStr(0), IntStr(42), PyList}
CarbonValues == {PyNone, PyInt(100), PyInt(1200), PyInt(0 - 3), PyFloat(997),
                 PyFloat(0 - 5), NaN, DecStr(125), IntStr(120)}
TimestampValues == {PyNone, PyStr(0)} \cup {Iso(time) : time \in 0..MaxTime}
IaqiValues == {PyNone, PyDict}
FlatIaqiValues == {PyNone, PyFloat(200)}

\* Every record over these values; the field of an absent key is None.
ChainInputs ==
    { r \in [keys : SUBSET ChainCols, city : CityValues, aqi : AqiValues,
             timestamp : TimestampValues, iaqi : IaqiValues,
             carbon_intensity : CarbonValues, iaqi_pm25 : FlatIaqiValues] :
        \A c \in ChainCols : c \notin r.keys => r[c] = PyNone }

ChainInit ==
    /\ ch_input \in ChainInputs
    /\ ch_data = ch_input
    /\ ch_stage = "schema"
    /\ ch_failed = ""
    /\ ch_err = ""
    /\ ch_now \in 0..MaxTime
    /\ NotChainIdle

\* `data = validator.validate(data)` for the validator at `stage`.
ChainStep(stage, next_stage, result) ==
    /\ ch_stage = stage
    /\ IF result.ok
         THEN /\ ch_data' = result.data
              /\ ch_stage' = next_stage
              /\ UNCHANGED <<ch_failed, ch_err>>
         ELSE /\ ch_stage' = "raised"
              /\ ch_failed' = stage
              /\ ch_err' = result.err
              /\ ch_data' = ch_data
    /\ UNCHANGED <<ch_input, ch_now, notChain>>

RunSchemaValidator == ChainStep("schema", "type", SchemaValidate(ch_data))
RunTypeValidator == ChainStep("type", "outlier", TypeValidate(ch_data))
RunOutlierDetector == ChainStep("outlier", "missing", OutlierValidate(ch_data))
RunMissingValueHandler ==
    ChainStep("missing", "consistency", MissingValueValidate(ch_data))
RunConsistencyChecker ==
    ChainStep("consistency", "integrity", ConsistencyValidate(ch_data, ch_now))
RunIntegrityEnsurer ==
    ChainStep("integrity", "returned", IntegrityValidate(ch_data, ch_now))

ChainNext ==
    \/ RunSchemaValidator \/ RunTypeValidator \/ RunOutlierDetector
    \/ RunMissingValueHandler \/ RunConsistencyChecker \/ RunIntegrityEnsurer

SpecChain == ChainInit /\ [][ChainNext]_vars

(***************************************************************************)
(* Properties of the chain.                                                *)
(***************************************************************************)
\* IntegrityEnsurer's own test of a missing field: absent, or None.
Populated(data, field) == Has(data, field) /\ data[field].t # "none"

C8_IntegrityNeverFails == ~(ch_stage = "raised" /\ ch_failed = "integrity")

\* C15: the timestamp of every record preprocess returns lies within
\* [now - 1 day, now] as of the time the chain ran: the timestamp-sanity stage
\* has replaced a future or older-than-a-day timestamp by now and has left
\* any other as it was, and no later stage changes it.
C15_TimestampSane ==
    ch_stage \in {"integrity", "returned"} =>
        LET given == ch_input.timestamp
            kept == ch_data.timestamp
        IN  /\ kept.t = "iso"
            /\ ch_now - OneDay <= kept.v /\ kept.v <= ch_now
            /\ given.t = "iso"
            /\ kept = IF given.v > ch_now \/ given.v < ch_now - OneDay
                        THEN Iso(ch_now)
                        ELSE given

\* A record stamped more than a day ago has been returned.
C15_Witness ==
    /\ ch_stage = "returned"
    /\ ch_input.timestamp.t = "iso"
    /\ ch_input.timestamp.v < ch_now - OneDay
    /\ ch_data.timestamp = Iso(ch_now)

(***************************************************************************)
(* OutlierDetector.validate on its own: applied to a record drawn from a   *)
(* bounded set, and applied again to the record it returned.               *)
(***************************************************************************)
ClampAqiValues ==
    {PyNone, PyInt(0 - 700), PyInt(0 - 5), PyInt(0), PyInt(50), PyInt(500),
     PyInt(600), PyFloat(0 - 5), PyFloat(4999), PyFloat(5001), NaN, PyStr(0)}
ClampCarbonValues ==
    {PyNone, PyInt(0 - 1), PyInt(0), PyInt(100), PyInt(1000), PyInt(1200),
     PyInt(2500), PyFloat(10005), NaN, PyList}

\* Records with and without the two ranged columns; the other fields are set.
ClampInputs ==
    { r \in [keys : SUBSET ChainCols, city : {PyStr(1)}, aqi : ClampAqiValues,
             timestamp : {Iso(0)}, iaqi : {PyDict},
             carbon_intensity : ClampCarbonValues, iaqi_pm25 : {PyNone}] :
        /\ {"city", "timestamp", "iaqi"} \subseteq r.keys
        /\ "iaqi_pm25" \notin r.keys
        /\ \A c \in {"aqi", "carbon_intensity"} : c \notin r.keys => r[c] = PyNone }

NotRun(data) == [ok |-> FALSE, err |-> "not run", data |-> data]

ClampInit ==
    /\ od_data \in ClampInputs
    /\ od_once = NotRun(od_data)
    /\ od_twice = NotRun(od_data)
    /\ od_pc = "start"
    /\ NotClampIdle

\* validate(data)
ClampOnce ==
    /\ od_pc = "start"
    /\ od_once' = OutlierValidate(od_data)
    /\ od_pc' = IF od_once'.ok THEN "once" ELSE "raised"
    /\ UNCHANGED <<od_data, od_twice, notClamp>>

\* validate(validate(data))
ClampTwice ==
    /\ od_pc = "once"
    /\ od_twice' = OutlierValidate(od_once.data)
    /\ od_pc' = IF od_twice'.ok THEN "twice" ELSE "raised"
    /\ UNCHANGED <<od_data, od_once, notClamp>>

ClampNext == ClampOnce \/ ClampTwice

SpecClamp == ClampInit /\ [][ClampNext]_vars

\* A value the range check can compare with a number.
Numeric(value) == value.t \in {"int", "float", "nan"}

\* min(max(value, lo), hi); a float is held in tenths, and NaN stays NaN.
Clamped(value, lo, hi) ==
    CASE value.t = "int" -> PyInt(Min(Max(value.v, lo), hi))
      [] value.t = "float" -> PyFloat(Min(Max(value.v, 10 * lo), 10 * hi))
      [] OTHER -> value

\* C16: the range-clamp stage never rejects a record whose aqi and
\* carbon_intensity are numeric: it returns the record with aqi set to
\* min(max(aqi, 0), 500) and carbon_intensity to min(max(carbon_intensity, 0),
\* 1000); in-range values and every other field are as they were.
C16_ClampNeverRejects ==
    (/\ od_pc # "start"
     /\ {"aqi", "carbon_intensity"} \subseteq od_data.keys
     /\ Numeric(od_data.aqi) /\ Numeric(od_data.carbon_intensity)) =>
        /\ od_once.ok
        /\ od_once.data =
              [od_data EXCEPT
                 !.aqi = Clamped(@, 0, 500),
                 !.carbon_intensity = Clamped(@, 0, 1000)]

\* A record with aqi 600 and carbon_intensity -1 has come back as 500 and 0.
C16_Witness ==
    /\ od_pc = "once"
    /\ od_data.aqi = PyInt(600) /\ od_data.carbon_intensity = PyInt(0 - 1)
    /\ od_once.data.aqi = PyInt(500) /\ od_once.data.carbon_intensity = PyInt(0)

\* C17: clamping is idempotent: the stage applied to a record it has returned
\* returns that record again, clamp(clamp(r)) = clamp(r).
C17_ClampIdempotent ==
    /\ od_pc = "twice" => od_twice = od_once
    /\ od_pc = "raised" => ~od_once.ok

\* A record with an out-of-range aqi has been clamped and clamped again.
C17_Witness ==
    /\ od_pc = "twice"
    /\ od_data.aqi = PyInt(0 - 700)
    /\ od_once.data.aqi = PyInt(0)
    /\ od_twice.data.aqi = PyInt(0)

(***************************************************************************)
(* feature_processor.py: FeatureExtractor.extract_features and             *)
(* add_rolling_averages (BasicFeatureEngineer in feature_engineering.py    *)
(* has the same two bodies).  Time is counted in hours from a Monday       *)
(* 00:00; a mean is held exactly, as the sum and the number of the values  *)
(* it averages, and is NaN when that number is 0.                          *)
(***************************************************************************)
\* Bounds of the feature specification: every list of up to MaxRows records
\* stamped with one of two hours (so that rows tie and differ), and lists of
\* LongRows records.
MaxRows == 3
LongRows == 25
ShortStamps == {0, 1}
\* Single records stamped with every hour 0..MaxWeekHour: a whole week and
\* the first hours of the next.
MaxWeekHour == 169

\* rolling(window=3, min_periods=1), rolling(window=24, min_periods=1)
ShortWindow == 3
LongWindow == 24
MinPeriods == 1

\* `for pollutant in [...]` and `for column in [...]`
Pollutants == <<"pm25", "pm10", "o3", "no2", "so2", "co">>
ValueColumns == <<"aqi">> \o Pollutants
AverageColumns ==
    {c \o "_3h_avg" : c \in Range(ValueColumns)} \cup
    {c \o "_24h_avg" : c \in Range(ValueColumns)}

OtherIaqi == [p \in {"pm25", "o3"} |-> IF p = "pm25" THEN 35 ELSE 40]
FeatureReadings ==
    {[aqi |-> PyInt(50), iaqi |-> SomeIaqi],
     [aqi |-> PyInt(80), iaqi |-> OtherIaqi],
     [aqi |-> PyNone, iaqi |-> NoIaqi]}
BaseReading == [aqi |-> PyInt(50), iaqi |-> SomeIaqi]

\* One record of the session buffer, as far as the features read it.
FeatureRecord(timestamp, reading) ==
    [timestamp |-> timestamp, aqi |-> reading.aqi, iaqi |-> reading.iaqi]

ShortInputs ==
    UNION {[1..n -> {FeatureRecord(time, reading) :
                        time \in ShortStamps, reading \in FeatureReadings}] :
             n \in 0..MaxRows}
\* LongRows hourly records in ascending or descending order, all alike but one.
LongInputs ==
    {[i \in 1..LongRows |->
        FeatureRecord(IF ascending THEN i ELSE LongRows + 1 - i,
                      IF i = odd THEN reading ELSE BaseReading)] :
       odd \in 1..LongRows, ascending \in BOOLEAN,
       reading \in FeatureReadings \ {BaseReading}}

\* One record for every hour of the week.
WeekInputs ==
    {<<FeatureRecord(time, reading)>> :
        time \in 0..MaxWeekHour, reading \in {BaseReading}}

\* A mean: NaN when count = 0.
Mean(sum, count) == [sum |-> sum, count |-> count]
NanMean == Mean(0, 0)
NoAverages == [c \in Range(ValueColumns) |-> NanMean]

\* df['timestamp'].dt.hour, .dt.dayofweek (Monday = 0)
Hour(timestamp) == timestamp % 24
DayOfWeekSundayFirst(timestamp) == ((timestamp \div 24) + 1) % 7
DayOfWeek(timestamp) == (timestamp \div 24) % 7

PollutantValueZero(iaqi, pollutant) ==
    IF pollutant \in DOMAIN iaqi THEN PyInt(iaqi[pollutant]) ELSE PyInt(0)
\* x.get(pollutant, {}).get('v', None); None is NaN in a float column.
PollutantValue(iaqi, pollutant) ==
    IF pollutant \in DOMAIN iaqi THEN PyInt(iaqi[pollutant]) ELSE NaN

\* pd.DataFrame(data): the columns are the records' keys (none for []), the
\* index is 0..n-1, and a None among numbers is NaN.
DataFrame(columns, rows) == [columns |-> columns, rows |-> rows]
FrameOf(records) ==
    DataFrame(IF records = <<>> THEN {} ELSE {"timestamp", "aqi", "iaqi"},
              [i \in 1..Len(records) |->
                 [index |-> i - 1,
                  timestamp |-> records[i].timestamp,
                  hour |-> 0,
                  day_of_week |-> 0,
                  iaqi |-> records[i].iaqi,
                  value |-> [c \in Range(ValueColumns) |->
                               IF c = "aqi" /\ records[i].aqi.t # "none"
                                 THEN records[i].aqi ELSE NaN],
                  avg_3h |-> NoAverages,
                  avg_24h |-> NoAverages]])

\* extract_features on a frame that has its columns: hour, day_of_week and
\* one column per pollutant are added.
WithFeatures(df) ==
    DataFrame(df.columns \cup {"hour", "day_of_week"} \cup Range(Pollutants),
              [i \in 1..Len(df.rows) |->
                 LET row == df.rows[i] IN
                 [row EXCEPT
                    !.hour = Hour(row.timestamp),
                    !.day_of_week = DayOfWeek(row.timestamp),
                    !.value = [c \in Range(ValueColumns) |->
                                 IF c = "aqi" THEN @[c]
                                 ELSE PollutantValue(row.iaqi, c)]]])

\* Every order of a set of row positions.
RECURSIVE Orderings(_)
Orderings(positions) ==
    IF positions = {} THEN {<<>>}
    ELSE UNION {{<<first>> \o rest : rest \in Orderings(positions \ {first})} :
                  first \in positions}

NextStampDescending(stamps) == CHOOSE t \in stamps : \A u \in stamps : t >= u
\* sort_values('timestamp') is ascending: the timestamp that comes next.
NextStamp(stamps) == CHOOSE t \in stamps : \A u \in stamps : t <= u

\* df.sort_values('timestamp'), kind='quicksort': the rows in ascending
\* timestamp order; quicksort is not stable, so rows with equal timestamps
\* come out in any order.  The result is a set of orders of row positions.
RECURSIVE SortOrdersFrom(_, _)
SortOrdersFrom(rows, stamps) ==
    IF stamps = {} THEN {<<>>}
    ELSE LET t == NextStamp(stamps)
             tied == {i \in 1..Len(rows) : rows[i].timestamp = t}
         IN  {first \o rest : first \in Orderings(tied),
                              rest \in SortOrdersFrom(rows, stamps \ {t})}
SortOrders(rows) ==
    SortOrdersFrom(rows, {rows[i].timestamp : i \in 1..Len(rows)})

LeavingLate(i, window) == i - window - 1
\* The position that leaves a window of `window` rows when row i enters it
\* (none while it is below 1).
Leaving(i, window) == i - window

\* Series.rolling(window, min_periods).mean(): pandas slides the window along
\* the column, adding the entering value to a running sum and count and
\* removing the leaving one; NaN values are not counted, and the mean is NaN
\* while fewer than min_periods values are counted.
RECURSIVE RollingMeanFrom(_, _, _, _, _, _, _)
RollingMeanFrom(values, window, min_periods, i, sum_x, nobs, out) ==
    IF i > Len(values) THEN out
    ELSE LET entering == values[i]
             gone == Leaving(i, window)
             added == IF entering.t = "nan"
                        THEN Mean(sum_x, nobs)
                        ELSE Mean(sum_x + entering.v, nobs + 1)
             kept == IF gone >= 1 /\ values[gone].t # "nan"
                       THEN Mean(added.sum - values[gone].v, added.count - 1)
                       ELSE added
         IN  RollingMeanFrom(values, window, min_periods, i + 1,
                             kept.sum, kept.count,
                             Append(out, IF kept.count >= min_periods
                                           THEN kept ELSE NanMean))
RollingMean(values, window, min_periods) ==
    CHOOSE out \in {RollingMeanFrom(column, window, min_periods, 1, 0, 0, <<>>) :
                      column \in {values}} : TRUE

\* df[column].rolling(window=window, min_periods=1).mean() for every column
\* of the loop of add_rolling_averages.
ColumnAverages(rows, window) ==
    [c \in Range(ValueColumns) |->
       RollingMean([i \in 1..Len(rows) |-> rows[i].value[c]], window, MinPeriods)]

\* The rows with their two averages per value column assigned.
AssignAverages(rows, short, long) ==
    [i \in 1..Len(rows) |->
       [rows[i] EXCEPT
          !.avg_3h = [c \in Range(ValueColumns) |-> short[c][i]],
          !.avg_24h = [c \in Range(ValueColumns) |-> long[c][i]]]]

\* The loop of add_rolling_averages over the value columns, on sorted rows.
WithAverages(rows) ==
    CHOOSE result \in
        {AssignAverages(rows, short, long) :
            short \in {ColumnAverages(rows, ShortWindow)},
            long \in {ColumnAverages(rows, LongWindow)}} : TRUE

\* The frame of test_add_rolling_averages_empty_data: the columns, no row.
EmptyFrame == DataFrame({"timestamp"} \cup Range(ValueColumns), <<>>)

\* extract_features(data) is called on a list of records, or
\* add_rolling_averages(df) directly on the empty frame.
FeatureInit ==
    /\ \/ /\ fe_data \in ShortInputs \cup LongInputs \cup WeekInputs
          /\ fe_df = DataFrame({}, <<>>)
          /\ fe_pc = "extract"
       \/ /\ fe_data = <<>>
          /\ fe_df = EmptyFrame
          /\ fe_pc = "rolling"
    /\ fe_err = ""
    /\ NotFeatureIdle

\* FeatureExtractor.extract_features: df['timestamp'] raises KeyError on a
\* frame without that column.
ExtractFeatures ==
    /\ fe_pc = "extract"
    /\ LET df == FrameOf(fe_data) IN
          IF "timestamp" \notin df.columns
            THEN /\ fe_pc' = "raised"
                 /\ fe_err' = "KeyError"
                 /\ fe_df' = fe_df
            ELSE /\ fe_pc' = "rolling"
                 /\ fe_err' = fe_err
                 /\ fe_df' = WithFeatures(df)
    /\ UNCHANGED <<fe_data, notFeature>>

\* FeatureExtractor.add_rolling_averages
AddRollingAverages ==
    /\ fe_pc = "rolling"
    /\ IF ~({"timestamp"} \cup Range(ValueColumns) \subseteq fe_df.columns)
         THEN /\ fe_pc' = "raised"
              /\ fe_err' = "KeyError"
              /\ fe_df' = fe_df
         ELSE /\ \E order \in SortOrders(fe_df.rows) :
                    LET sorted == [k \in 1..Len(order) |-> fe_df.rows[order[k]]]
                    IN  fe_df' = DataFrame(fe_df.columns \cup AverageColumns,
                                           WithAverages(sorted))
              /\ fe_pc' = "returned"
              /\ fe_err' = fe_err
    /\ UNCHANGED <<fe_data, notFeature>>

FeatureNext == ExtractFeatures \/ AddRollingAverages

SpecFeatures == FeatureInit /\ [][FeatureNext]_vars

(***************************************************************************)
(* Properties of the features.                                             *)
(***************************************************************************)
\* The values of column c in rows from..to of a frame, missing ones left
\* out: their sum and their number.
RECURSIVE PresentSum(_, _, _, _)
PresentSum(rows, c, from, to) ==
    IF from > to THEN 0
    ELSE (IF rows[to].value[c].t = "nan" THEN 0 ELSE rows[to].value[c].v)
         + PresentSum(rows, c, from, to - 1)
PresentCount(rows, c, from, to) ==
    Cardinality({k \in from..to : rows[k].value[c].t # "nan"})

\* Two means are the same number, or are both NaN.
SameMean(a, b) ==
    IF a.count = 0 \/ b.count = 0 THEN a.count = b.count
    ELSE a.sum * b.count = b.sum * a.count

\* The arithmetic mean of the values of rows from..to, all of them: NaN as
\* soon as one of them is missing.
MeanOfAll(rows, c, from, to) ==
    IF PresentCount(rows, c, from, to) = to - from + 1
      THEN Mean(PresentSum(rows, c, from, to), to - from + 1)
      ELSE NanMean

\* The arithmetic mean of the values of rows from..to that are not missing:
\* NaN when all of them are.
MeanOfPresent(rows, c, from, to) ==
    Mean(PresentSum(rows, c, from, to), PresentCount(rows, c, from, to))

\* C13 as stated: in the returned frame, for every value column and every
\* row (position i counted from 1 here), the 3h average is the arithmetic
\* mean of the min(i, 3) most recent values, rows max(1, i-2)..i, and the 24h
\* average that of the min(i, 24) most recent values.
C13_RollingMeans ==
    fe_pc = "returned" =>
        \A c \in Range(ValueColumns), i \in 1..Len(fe_df.rows) :
            /\ SameMean(fe_df.rows[i].avg_3h[c],
                        MeanOfAll(fe_df.rows, c, Max(1, i - 2), i))
            /\ SameMean(fe_df.rows[i].avg_24h[c],
                        MeanOfAll(fe_df.rows, c, Max(1, i - 23), i))

\* C13 as amended: each average is the arithmetic mean of the values that are
\* not missing among the min(i, 3) (min(i, 24)) most recent rows, and NaN
\* when all of them are missing; the window counts rows, not hours.
C13_RollingMeansOfPresent ==
    fe_pc = "returned" =>
        \A c \in Range(ValueColumns), i \in 1..Len(fe_df.rows) :
            /\ SameMean(fe_df.rows[i].avg_3h[c],
                        MeanOfPresent(fe_df.rows, c, Max(1, i - 2), i))
            /\ SameMean(fe_df.rows[i].avg_24h[c],
                        MeanOfPresent(fe_df.rows, c, Max(1, i - 23), i))

\* A frame of more than 24 rows has its averages: the last row's 24h average
\* of aqi leaves the first row out and skips one missing value, and its 3h
\* average is over three values.
C13_Witness ==
    /\ fe_pc = "returned"
    /\ Len(fe_df.rows) = LongRows
    /\ fe_df.rows[LongRows].avg_24h["aqi"].count = 23
    /\ fe_df.rows[LongRows].avg_3h["aqi"].count = 3
    /\ fe_df.rows[1].value["aqi"].t # "nan"

\* C14: feature extraction on an empty input never errors:
\* extract_features([]) returns a frame of 0 rows without raising, and
\* add_rolling_averages on a frame of 0 rows returns a frame of 0 rows.
C14_EmptyInputNeverErrors ==
    (fe_data = <<>> /\ fe_pc # "extract") =>
        /\ fe_pc # "raised"
        /\ fe_df.rows = <<>>

\* C20: add_rolling_averages returns exactly the rows it was given, as many
\* and each once, in ascending order of timestamp, whatever the order of the
\* records was.
C20_SortedPermutation ==
    fe_pc = "returned" =>
        LET rows == fe_df.rows
            n == Len(rows)
        IN  /\ n = Len(fe_data)
            /\ {rows[k].index : k \in 1..n} = 0..(n - 1)
            /\ \A k \in 1..n :
                  LET given == WithFeatures(FrameOf(fe_data)).rows[rows[k].index + 1]
                  IN  /\ rows[k].timestamp = given.timestamp
                      /\ rows[k].value = given.value
                      /\ rows[k].iaqi = given.iaqi
                      /\ rows[k].hour = given.hour
                      /\ rows[k].day_of_week = given.day_of_week
            /\ \A j \in 1..n, k \in 1..n :
                  j < k => rows[j].timestamp <= rows[k].timestamp

\* Records handed over in descending order of timestamp have come back in
\* ascending order.
C20_Witness ==
    /\ fe_pc = "returned"
    /\ Len(fe_data) = LongRows
    /\ fe_data[1].timestamp > fe_data[2].timestamp
    /\ fe_df.rows[1].index = LongRows - 1
    /\ fe_df.rows[1].timestamp < fe_df.rows[2].timestamp

\* The columns of the records handed to extract_features.
InputColumns == {"timestamp", "aqi", "iaqi"}

C22_MissingPollutant ==
    (fe_data # <<>> /\ fe_pc # "extract") =>
        /\ fe_pc # "raised"
        /\ fe_pc = "rolling" =>
              \A i \in 1..Len(fe_data), p \in Range(Pollutants) :
                  IF p \in DOMAIN fe_data[i].iaqi
                    THEN fe_df.rows[i].value[p] = PyInt(fe_data[i].iaqi[p])
                    ELSE /\ fe_df.rows[i].value[p] = NaN
                         /\ fe_df.rows[i].value[p] # PyInt(0)

\* The record of test_extract_features_missing_data: pm25 = 20 and pm10 = 30
\* are kept, o3, no2, so2 and co are missing.
C22_Witness ==
    /\ fe_pc = "rolling"
    /\ Len(fe_data) >= 1
    /\ fe_data[1].iaqi = SomeIaqi
    /\ fe_df.rows[1].value["pm25"] = PyInt(20)
    /\ fe_df.rows[1].value["pm10"] = PyInt(30)
    /\ \A p \in {"o3", "no2", "so2", "co"} : fe_df.rows[1].value[p] = NaN

\* C23: every row of the frame the extractor returns carries an aqi_category,
\* the label of the right-inclusive bin of its aqi (boundaries 50, 100, 150,
\* 200, 300): the frame has that column once features are extracted.
C23_AqiCategory ==
    (fe_data # <<>> /\ fe_pc \in {"rolling", "returned"}) =>
        "aqi_category" \in fe_df.columns

(***************************************************************************)
(* Properties of the records collect_data stores and transmits.            *)
(***************************************************************************)
\* A record as the normalization chain leaves it: aqi null, the sentinel -1
\* or within 0..500, carbon_intensity the sentinel -1 or within 0..1000.
Normalized(record) ==
    /\ \/ record.aqi.t = "none"
       \/ /\ record.aqi.t = "int"
          /\ record.aqi.v \in {0 - 1} \cup 0..500
    /\ record.carbon_intensity.t = "int"
    /\ record.carbon_intensity.v \in {0 - 1} \cup 0..1000

\* C24: every record collect_data hands to insert_data or appends to the
\* session buffer is normalized, whatever the sources returned.
C24_StoredNormalized ==
    /\ \A i \in 1..Len(all_data) : Normalized(all_data[i])
    /\ pc = "insert" => Normalized(processed_data)
    /\ \A i \in 1..Len(db) : Normalized(db[i])

\* C25: wherever the session buffer contains a record, insert_data for that
\* record has already completed successfully: its row is in the database.
C25_BufferedIsPersisted ==
    \A i \in 1..Len(all_data) :
        \E j \in 1..Len(db) : db[j].timestamp = all_data[i].timestamp

\* C27: the upload of a cycle transmits that cycle's record and nothing
\* else: a step that transmits adds one batch, which holds the record
\* processed in this cycle only.
C27_UploadsCurrentRecordOnly ==
    [][transmitted' # transmitted =>
          transmitted' = Append(transmitted, <<processed_data.timestamp>>)]_vars

(***************************************************************************)
(* The sentinel of a null carbon_intensity.                                *)
(***************************************************************************)
\* C26: a record that enters preprocess with carbon_intensity = null leaves
\* the whole chain with carbon_intensity = -1, the integer sentinel, which a
\* genuine 0 cannot be taken for.
C26_NullCarbonSentinel ==
    (/\ ch_stage = "returned"
     /\ "carbon_intensity" \in ch_input.keys
     /\ ch_input.carbon_intensity = PyNone) =>
        ch_data.carbon_intensity = PyInt(0 - 1)

(***************************************************************************)
(* The retry wrapper under any max_attempts.                               *)
(***************************************************************************)
\* C29: for every max_attempts, 0 and negative included, the retry wrapper
\* returns normally only if an invocation of the wrapped operation returned
\* normally: it never returns without having invoked the operation.
C29_ReturnNeedsInvocation ==
    r_pc = "returned" =>
        /\ Len(r_calls) >= 1
        /\ r_calls[Len(r_calls)] \in OkOutcomes

(***************************************************************************)
(* hopsworks_uploader.py: HopsworksConnector, and check_connection of      *)
(* HopsworksUploader, which main.py calls before the run.  The methods are *)
(* called one after another on one connector; hsfs.connection and the      *)
(* connection's get_feature_store each return or raise.                    *)
(***************************************************************************)
\* Bound of the connector specification: the number of calls made.
MaxCalls == 4

\* What a call into hsfs does.
HsfsOutcomes == {"ok", "raises"}

\* The state a call leaves and what it returned or raised.
Left(connection, fs, result) ==
    [connection |-> connection, fs |-> fs, result |-> result]

\* HopsworksConnector.connect: nothing is done once _connection is set; else
\* _connection is assigned before _fs, and the handler logs and re-raises.
Connect(connection, fs, hsfs_connection, feature_store) ==
    IF connection = "None"
      THEN IF hsfs_connection = "raises" THEN Left(connection, fs, "raised")
           ELSE IF feature_store = "raises"
                  THEN Left("connection", fs, "raised")
                  ELSE Left("connection", "fs", "returned")
      ELSE Left(connection, fs, "returned")

\* HopsworksConnector.check_connection
ConnectorCheckConnection(connection, fs, hsfs_connection, feature_store) ==
    LET left == Connect(connection, fs, hsfs_connection, feature_store) IN
    Left(left.connection, left.fs,
         IF left.result = "raised" THEN "False" ELSE "True")

\* HopsworksConnector.get_feature_store: returns _fs, or an error of connect
\* passes through.
GetFeatureStore(connection, fs, hsfs_connection, feature_store) ==
    IF fs = "None"
      THEN LET left == Connect(connection, fs, hsfs_connection, feature_store)
           IN  Left(left.connection, left.fs,
                    IF left.result = "raised" THEN "raised" ELSE left.fs)
      ELSE Left(connection, fs, fs)

\* HopsworksUploader.check_connection
UploaderCheckConnection(connection, fs, hsfs_connection, feature_store) ==
    LET left == GetFeatureStore(connection, fs, hsfs_connection, feature_store)
    IN  Left(left.connection, left.fs,
             IF left.result = "raised" THEN "False" ELSE "True")

\* HopsworksConnector.__init__
ConnectorInit ==
    /\ hc_connection = "None"
    /\ hc_fs = "None"
    /\ hc_log = <<>>
    /\ NotConnectorIdle

\* A call has been made: the fields are as it left them and the log has it.
Called(call, left) ==
    /\ hc_connection' = left.connection
    /\ hc_fs' = left.fs
    /\ hc_log' = Append(hc_log, [call |-> call, result |-> left.result])
    /\ UNCHANGED notConnector

CallConnect ==
    /\ Len(hc_log) < MaxCalls
    /\ \E c \in HsfsOutcomes, f \in HsfsOutcomes :
          Called("connect", Connect(hc_connection, hc_fs, c, f))

CallCheckConnection ==
    /\ Len(hc_log) < MaxCalls
    /\ \E c \in HsfsOutcomes, f \in HsfsOutcomes :
          Called("check_connection",
                 ConnectorCheckConnection(hc_connection, hc_fs, c, f))

CallGetFeatureStore ==
    /\ Len(hc_log) < MaxCalls
    /\ \E c \in HsfsOutcomes, f \in HsfsOutcomes :
          Called("get_feature_store",
                 GetFeatureStore(hc_connection, hc_fs, c, f))

CallUploaderCheckConnection ==
    /\ Len(hc_log) < MaxCalls
    /\ \E c \in HsfsOutcomes, f \in HsfsOutcomes :
          Called("HopsworksUploader.check_connection",
                 UploaderCheckConnection(hc_connection, hc_fs, c, f))

ConnectorNext ==
    \/ CallConnect
    \/ CallCheckConnection
    \/ CallGetFeatureStore
    \/ CallUploaderCheckConnection

SpecConnector == ConnectorInit /\ [][ConnectorNext]_vars

\* C28: after any sequence of connect, check_connection and
\* get_feature_store calls, whenever check_connection, of the connector or of
\* HopsworksUploader, has just returned True, the feature-store handle _fs is
\* not null, also when an earlier attempt obtained the connection and failed
\* to obtain the feature store.
C28_CheckedMeansFeatureStore ==
    (/\ hc_log # <<>>
     /\ hc_log[Len(hc_log)].call \in
           {"check_connection", "HopsworksUploader.check_connection"}
     /\ hc_log[Len(hc_log)].result = "True") =>
        hc_fs # "None"

(***************************************************************************)
(* Termination of collect_data.  Every step of the run is a call that      *)
(* returns or raises, or a sleep that ends: the run is weakly fair.        *)
(***************************************************************************)
FairSpec == Spec /\ WF_vars(Next)

\* The positions where the run has ended: collect_data has returned and its
\* buffer is saved, insert_data or a KeyboardInterrupt has unwound it, or the
\* application never entered it.
Terminated == pc \in {"done", "failed", "interrupted", "no_app", "terminated"}

\* ceil(a / b) for b > 0
CeilDiv(a, b) == (a + b - 1) \div b

\* C30: for every total_collection_time >= 0 and interval > 0 collect_data
\* eventually terminates, by returning or raising; its loop performs at most
\* ceil(total_collection_time / interval) cycles, and the upload of each
\* cycle makes at most max_attempts attempts.
C30_Terminates ==
    /\ [](pc # "idle" =>
            /\ cycle <= CeilDiv(collection_time, interval)
            /\ c_upload <= UploadMaxAttempts)
    /\ <>Terminated

\* A run of the longest collection time with the shortest interval has
\* performed ceil(total / interval) cycles, the last with three upload
\* attempts, and has returned.
C30_Witness ==
    /\ pc = "done"
    /\ collection_time = MaxCollect
    /\ interval = 1
    /\ cycle >= 2
    /\ c_upload = UploadMaxAttempts

====
